---- MODULE Spec2Model ----
(***************************************************************************)
(* Model of app_busca_streamlit.py: the description cleaner, the file      *)
(* preparer (processar_arquivo) and the search block of the Streamlit      *)
(* script.  A text is a sequence of one-character strings.  A table cell   *)
(* is a sequence of length 0 (null / NaN) or 1 (a value).                  *)
(***************************************************************************)
EXTENDS Integers, Sequences, FiniteSets, TLC

VARIABLES
    arquivo_carregado,   \* st.file_uploader widget value (a file, or kind "none")
    precisao,            \* st.slider "Precisao (%)"
    limite_resultados,   \* st.selectbox "Maximo de resultados"
    busca,               \* st.text_input value
    buscar_btn,          \* st.button value in the last script run
    info_df,             \* result of processar_arquivo in the last run
    matches,             \* result of process.extract in the last run
    resultados,          \* the result list built in the last run
    saida,               \* which message / page the last run rendered
    extract_chamado,     \* TRUE iff the last run called process.extract
    token_set_ratio,     \* the external scorer: cleaned description -> score
    texto,               \* limpar_descricoes: the input text
    limpo1,              \* limpar_descricoes: the text cleaned once
    limpo2,              \* limpar_descricoes: the text cleaned twice
    fase                 \* limpar_descricoes: 0 = input, 1 = cleaned, 2 = cleaned twice

vars == <<arquivo_carregado, precisao, limite_resultados, busca, buscar_btn,
          info_df, matches, resultados, saida, extract_chamado,
          token_set_ratio, texto, limpo1, limpo2, fase>>

app_vars == <<arquivo_carregado, precisao, limite_resultados, busca, buscar_btn,
              info_df, matches, resultados, saida, extract_chamado,
              token_set_ratio>>

norm_vars == <<texto, limpo1, limpo2, fase>>

\* ------------------------------------------------------------------ bounds
MaxLen == 5        \* longest text given to the cleaner
MaxRows == 3       \* most rows in an uploaded file (Spec)
MaxLinhas == 6     \* most rows in an uploaded file (SpecBusca)

\* ------------------------------------------------------------------- texts
TAB == "\t"
Alfabeto == {"D", "d", "e", " ", TAB, "!"}
Whitespace == {" ", TAB}
Letras == {"D", "d", "e"}

\* str.lower() on one character
lower_char(c) == IF c = "D" THEN "d" ELSE c

\* str(desc).lower()
lower(s) == [i \in 1..Len(s) |-> lower_char(s[i])]

RECURSIVE re_sub_ws(_)
\* re.sub(r'\s+', ' ', s): every maximal run of whitespace becomes one space
re_sub_ws(s) ==
    IF s = <<>> THEN <<>>
    ELSE IF Head(s) \in Whitespace
         THEN IF Len(s) > 1 /\ s[2] \in Whitespace
              THEN re_sub_ws(Tail(s))
              ELSE <<" ">> \o re_sub_ws(Tail(s))
         ELSE <<Head(s)>> \o re_sub_ws(Tail(s))

RECURSIVE lstrip(_)
lstrip(s) == IF s # <<>> /\ Head(s) \in Whitespace THEN lstrip(Tail(s)) ELSE s

RECURSIVE rstrip(_)
rstrip(s) ==
    IF s # <<>> /\ s[Len(s)] \in Whitespace
    THEN rstrip(SubSeq(s, 1, Len(s) - 1))
    ELSE s

\* str.strip()
strip(s) == rstrip(lstrip(s))

RECURSIVE re_sub_pares(_)
\* a cleaner that replaces each pair of whitespace characters by one space
\* (the pattern \s\s in place of \s+)
re_sub_pares(s) ==
    IF s = <<>> THEN <<>>
    ELSE IF Head(s) \in Whitespace
         THEN IF Len(s) > 1 /\ s[2] \in Whitespace
              THEN <<" ">> \o re_sub_pares(Tail(Tail(s)))
              ELSE <<Head(s)>> \o re_sub_pares(Tail(s))
         ELSE <<Head(s)>> \o re_sub_pares(Tail(s))

limpar_texto_pares(desc) == strip(re_sub_pares(lower(desc)))

\* a cleaner that forgets the final strip()
limpar_texto_sem_strip(desc) == re_sub_ws(lower(desc))

\* one description through the loop body of limpar_descricoes; the same two
\* statements clean the query (busca_limpa)
limpar_texto(desc) == strip(re_sub_ws(lower(desc)))

\* limpar_descricoes: the cleaned list, one entry per input, in order
limpar_descricoes(descricoes) ==
    [i \in 1..Len(descricoes) |-> limpar_texto(descricoes[i])]

\* ------------------------------------------------------------------ tables
colunas_necessarias ==
    {"ID_do_Projeto", "Descricao", "Custo_proposto", "Nome_do_Projeto"}

\* pandas isna on one cell
isna(cell) == Len(cell) = 0

\* the parsed file as a DataFrame: row i carries the index label i
DataFrame(linhas) ==
    [i \in 1..Len(linhas) |->
        [index |-> i,
         ID_do_Projeto |-> linhas[i].ID_do_Projeto,
         Nome_do_Projeto |-> linhas[i].Nome_do_Projeto,
         Descricao |-> linhas[i].Descricao,
         Custo_proposto |-> linhas[i].Custo_proposto]]

\* a dropna that looks at three of the four columns only
dropna_sem_custo(df) ==
    SelectSeq(df, LAMBDA r :
        \A c \in colunas_necessarias \ {"Custo_proposto"} : ~isna(r[c]))

\* df[colunas_necessarias].dropna(): keeps, in order and with their index
\* labels, the rows with no null in any of the four columns
dropna(df) ==
    SelectSeq(df, LAMBDA r : \A c \in colunas_necessarias : ~isna(r[c]))

\* an emptiness test that never fires
df_empty_nunca(df) == FALSE

\* DataFrame.empty
df_empty(df) == Len(df) = 0

\* the required columns for which the file has no matching column (the match
\* is a case-insensitive containment test; a file column is named here by the
\* required column it matches)
colunas_faltando(arq) == {c \in colunas_necessarias : c \notin arq.colunas}

\* info_df = None
None_df == [ok |-> FALSE, linhas |-> <<>>, erro |-> "none"]

Falha(msg) == [ok |-> FALSE, linhas |-> <<>>, erro |-> msg]

\* df['Descricoes_limpas'] = limpas
com_coluna(df, limpas) ==
    [i \in 1..Len(df) |->
        [index |-> df[i].index,
         ID_do_Projeto |-> df[i].ID_do_Projeto,
         Nome_do_Projeto |-> df[i].Nome_do_Projeto,
         Descricao |-> df[i].Descricao,
         Custo_proposto |-> df[i].Custo_proposto,
         Descricoes_limpas |-> limpas[i]]]

\* df_processado['Descricoes_limpas'] = limpar_descricoes(Descricao.tolist())
com_descricoes_limpas(df) ==
    com_coluna(df, limpar_descricoes([i \in 1..Len(df) |-> df[i].Descricao[1]]))

\* the end of processar_arquivo, from the dropna result on
validar(df_processado) ==
    IF df_empty(df_processado) THEN Falha("erro_vazio")
    ELSE [ok |-> TRUE,
          linhas |-> com_descricoes_limpas(df_processado),
          erro |-> "none"]

\* processar_arquivo: the prepared DataFrame, or None after st.error
processar_arquivo(arq) ==
    IF arq.ext \notin {"csv", "xlsx", "xls"} THEN Falha("erro_formato")
    ELSE IF ~arq.legivel THEN Falha("erro_excecao")
    ELSE IF colunas_faltando(arq) # {} THEN Falha("erro_colunas")
    ELSE validar(dropna(DataFrame(arq.linhas)))

\* ------------------------------------------------------------ search block
\* fuzz.token_set_ratio(query, choice): 0 for an empty string, otherwise the
\* scorer's value for the pair
score_of(tsr, query, choice) ==
    IF query = <<>> \/ choice = <<>> THEN 0 ELSE tsr[<<query, choice>>]

\* an insertion that sorts ascending (reverse=True forgotten)
inserir_crescente(x, s) ==
    SelectSeq(s, LAMBDA y : y.score <= x.score) \o <<x>> \o
    SelectSeq(s, LAMBDA y : y.score > x.score)

\* x put into the descending list s after every element that scores at least
\* as much
inserir(x, s) ==
    SelectSeq(s, LAMBDA y : y.score >= x.score) \o <<x>> \o
    SelectSeq(s, LAMBDA y : y.score < x.score)

RECURSIVE sorted_desc(_)
\* sorted(sl, key=score, reverse=True): descending, equal scores in their
\* original order
sorted_desc(sl) ==
    IF sl = <<>> THEN <<>>
    ELSE inserir(sl[Len(sl)], sorted_desc(SubSeq(sl, 1, Len(sl) - 1)))

\* an extraction that ignores the limit
nlargest_sem_limite(limit, ordenado) == ordenado

\* heapq.nlargest(limit, sl, key=score): the first limit of the sorted list
nlargest(limit, ordenado) ==
    SubSeq(ordenado, 1, IF Len(ordenado) < limit THEN Len(ordenado) ELSE limit)

\* extractWithoutOrder: every choice with its score, in the order of choices
pontuar(tsr, query, choices) ==
    [i \in 1..Len(choices) |->
        [descricao |-> choices[i], score |-> score_of(tsr, query, choices[i])]]

\* process.extract(query, choices, scorer=fuzz.token_set_ratio, limit=limit):
\* every choice is scored, the limit best are returned, best first
extract(tsr, query, choices, limit) ==
    nlargest(limit, sorted_desc(pontuar(tsr, query, choices)))

\* a strict threshold test
passa_estrito(score, prec) == score > prec

\* a threshold test with the comparison reversed
passa_invertido(score, prec) == score <= prec

\* if score >= precisao
passa_precisao(score, prec) == score >= prec

\* info_df[info_df['Descricoes_limpas'] == descricao].iloc[0]
projeto_de(df, descricao) ==
    df[CHOOSE i \in DOMAIN df :
          /\ df[i].Descricoes_limpas = descricao
          /\ \A j \in 1..(i - 1) : df[j].Descricoes_limpas # descricao]

\* the dictionary appended to resultados for one accepted match
resultado(projeto, score) ==
    [index |-> projeto.index,
     ID |-> projeto.ID_do_Projeto,
     Nome |-> projeto.Nome_do_Projeto,
     Descricao |-> projeto.Descricao,
     Custo |-> projeto.Custo_proposto,
     Similaridade |-> score]

RECURSIVE montar_resultados(_, _, _)
\* the loop that builds resultados from matches
montar_resultados(df, ms, prec) ==
    IF ms = <<>> THEN <<>>
    ELSE (IF passa_precisao(Head(ms).score, prec)
          THEN <<resultado(projeto_de(df, Head(ms).descricao), Head(ms).score)>>
          ELSE <<>>)
         \o montar_resultados(df, Tail(ms), prec)

\* a guard without the busca.strip() test
search_guard_sem_strip(btn, b) == btn \/ b # <<>>

\* if (buscar_btn or busca) and busca.strip()
search_guard(btn, b) == (btn \/ b # <<>>) /\ strip(b) # <<>>

\* info_df['Descricoes_limpas'].tolist()
tolist_limpas(df) == [i \in 1..Len(df) |-> df[i].Descricoes_limpas]

\* what the search block shows for the result list it built
mostrar(df, ms, res) ==
    [info_df |-> df, matches |-> ms, resultados |-> res,
     extract_chamado |-> TRUE,
     saida |-> IF res # <<>> THEN "resultados" ELSE "nenhum"]

\* the search block after process.extract returned ms
filtrar(df, ms, prec) == mostrar(df, ms, montar_resultados(df.linhas, ms, prec))

\* the search block: clean the query, extract the matches, build the results
buscar(tsr, df, prec, lim, b) ==
    filtrar(df, extract(tsr, limpar_texto(b), tolist_limpas(df.linhas), lim), prec)

\* the script from "if info_df is not None" on
pagina(tsr, df, semArquivo, prec, lim, b, btn) ==
    IF ~df.ok
    THEN [info_df |-> df, matches |-> <<>>, resultados |-> <<>>,
          extract_chamado |-> FALSE,
          saida |-> IF semArquivo THEN "instrucoes" ELSE df.erro]
    ELSE IF ~search_guard(btn, b)
    THEN [info_df |-> df, matches |-> <<>>, resultados |-> <<>>,
          extract_chamado |-> FALSE, saida |-> "sem_busca"]
    ELSE buscar(tsr, df, prec, lim, b)

\* one run of the script, top to bottom, for the given widget values
Script(tsr, arq, prec, lim, b, btn) ==
    pagina(tsr,
           IF arq.ext # "none" THEN processar_arquivo(arq) ELSE None_df,
           arq.ext = "none", prec, lim, b, btn)

\* ------------------------------------------------------------------ inputs
PrecisaoMin == 1
PrecisaoMax == 100
PrecisaoPadrao == 70
LimitePadrao == 10
LimiteOpcoes == {5, 10, 15, 20}

\* slider positions tried, and the values the scorer may return
Precisoes == {p \in {69, 70} : PrecisaoMin <= p /\ p <= PrecisaoMax}
ScoreVals == {69, 70}

\* raw descriptions: the first two differ as typed and are equal once cleaned
Descricoes == {<<"D">>, <<"d", " ">>, <<"e">>}
DescricoesApp == {<<"d", " ">>}
DescricoesBusca == {<<"D">>, <<"e">>}

\* raw queries: empty, blank, and one with text
Buscas == {<<>>, <<" ">>, <<"D", " ">>}

Consultas == {limpar_texto(b) : b \in Buscas} \ {<<>>}
DescsLimpas == {limpar_texto(d) : d \in Descricoes}
Scorers == [Consultas \X DescsLimpas -> ScoreVals]

\* a file row with description desc and a null in column nulo (if any)
Linha(desc, nulo) ==
    [ID_do_Projeto |-> IF nulo = "ID_do_Projeto" THEN <<>> ELSE <<1>>,
     Nome_do_Projeto |-> IF nulo = "Nome_do_Projeto" THEN <<>> ELSE <<"nome">>,
     Descricao |-> IF nulo = "Descricao" THEN <<>> ELSE <<desc>>,
     Custo_proposto |-> IF nulo = "Custo_proposto" THEN <<>> ELSE <<100>>]

LinhasCompletas(descs) == {Linha(d, "nenhum") : d \in descs}
LinhasComNulo == {Linha(<<"D">>, c) : c \in colunas_necessarias}

SeqAte(S, n) == UNION {[1..k -> S] : k \in 0..n}

Planilha(linhas) ==
    [ext |-> "csv", legivel |-> TRUE, colunas |-> colunas_necessarias,
     linhas |-> linhas]

SemArquivo ==
    [ext |-> "none", legivel |-> TRUE, colunas |-> {}, linhas |-> <<>>]

ArquivosRuins ==
    {[ext |-> "txt", legivel |-> TRUE, colunas |-> colunas_necessarias,
      linhas |-> <<>>],
     [ext |-> "xlsx", legivel |-> FALSE, colunas |-> colunas_necessarias,
      linhas |-> <<>>],
     [ext |-> "csv", legivel |-> TRUE,
      colunas |-> colunas_necessarias \ {"Custo_proposto"}, linhas |-> <<>>]}

TiposDeLinha == LinhasCompletas(DescricoesApp) \cup LinhasComNulo

\* the files the user may upload next: a file that cannot be prepared, or
\* the spreadsheet: a new one of at most one row when none is loaded, else
\* the loaded one with a row added
Arquivos(atual) ==
    ArquivosRuins \cup
    IF atual.ext = "csv" /\ atual.legivel /\ colunas_faltando(atual) = {}
    THEN {Planilha(Append(atual.linhas, l)) :
             l \in IF Len(atual.linhas) < MaxRows THEN TiposDeLinha ELSE {}}
    ELSE {Planilha(l) : l \in SeqAte(TiposDeLinha, 1)}

ArquivosBusca ==
    {Planilha(l) : l \in SeqAte(LinhasCompletas(DescricoesBusca), MaxLinhas)
                         \ {<<>>}}

Textos == SeqAte(Alfabeto, MaxLen)

\* ---------------------------------------------------------------- behaviour
\* The script runs once, top to bottom, after every widget change.  The
\* text input and the search button exist only in a run whose dataset loaded,
\* so the query falls back to its default when they are not rendered.
Rerun(arq, prec, lim, b, btn) ==
    \E r \in {Script(token_set_ratio, arq, prec, lim, b, btn)} :
        /\ arquivo_carregado' = arq
        /\ precisao' = prec
        /\ limite_resultados' = lim
        /\ busca' = IF r.info_df.ok THEN b ELSE <<>>
        /\ buscar_btn' = (r.info_df.ok /\ btn)
        /\ info_df' = r.info_df
        /\ matches' = r.matches
        /\ resultados' = r.resultados
        /\ saida' = r.saida
        /\ extract_chamado' = r.extract_chamado
        /\ UNCHANGED <<token_set_ratio, norm_vars>>

Parado ==
    /\ texto = <<>>
    /\ limpo1 = <<>>
    /\ limpo2 = <<>>
    /\ fase = 0

PrimeiraExecucao(arq) ==
    \E r \in {Script(token_set_ratio, arq, PrecisaoPadrao, LimitePadrao,
                     <<>>, FALSE)} :
        /\ arquivo_carregado = arq
        /\ precisao = PrecisaoPadrao
        /\ limite_resultados = LimitePadrao
        /\ busca = <<>>
        /\ buscar_btn = FALSE
        /\ info_df = r.info_df
        /\ matches = r.matches
        /\ resultados = r.resultados
        /\ saida = r.saida
        /\ extract_chamado = r.extract_chamado

Init ==
    /\ token_set_ratio \in Scorers
    /\ PrimeiraExecucao(SemArquivo)
    /\ Parado

\* the user uploads, replaces or removes the file
Upload ==
    \E arq \in Arquivos(arquivo_carregado) \cup {SemArquivo} :
        /\ arq # arquivo_carregado
        /\ Rerun(arq, precisao, limite_resultados, busca, FALSE)

\* the user moves the precision slider
MoverPrecisao ==
    \E p \in Precisoes :
        /\ p # precisao
        /\ Rerun(arquivo_carregado, p, limite_resultados, busca, FALSE)

\* the user picks another maximum number of results
EscolherLimite ==
    \E l \in LimiteOpcoes :
        /\ l # limite_resultados
        /\ Rerun(arquivo_carregado, precisao, l, busca, FALSE)

\* the user edits the query text
DigitarBusca ==
    \E b \in Buscas :
        /\ info_df.ok
        /\ b # busca
        /\ Rerun(arquivo_carregado, precisao, limite_resultados, b, FALSE)

\* the user clicks the search button
ClicarBuscar ==
    /\ info_df.ok
    /\ Rerun(arquivo_carregado, precisao, limite_resultados, busca, TRUE)

Next ==
    \/ Upload
    \/ MoverPrecisao
    \/ EscolherLimite
    \/ DigitarBusca
    \/ ClicarBuscar

Spec == Init /\ [][Next]_vars

\* the search block on larger datasets: a valid file is loaded, the user
\* works the search widgets
InitBusca ==
    /\ token_set_ratio \in Scorers
    /\ \E arq \in ArquivosBusca : PrimeiraExecucao(arq)
    /\ Parado

NextBusca ==
    \/ MoverPrecisao
    \/ EscolherLimite
    \/ DigitarBusca
    \/ ClicarBuscar

SpecBusca == InitBusca /\ [][NextBusca]_vars

\* the cleaner applied to a text, and again to its own output
InitNorm ==
    /\ token_set_ratio = CHOOSE f \in Scorers : TRUE
    /\ PrimeiraExecucao(SemArquivo)
    /\ texto \in Textos
    /\ limpo1 = <<>>
    /\ limpo2 = <<>>
    /\ fase = 0

Limpar ==
    /\ fase = 0
    /\ limpo1' = limpar_texto(texto)
    /\ fase' = 1
    /\ UNCHANGED <<texto, limpo2, app_vars>>

LimparDeNovo ==
    /\ fase = 1
    /\ limpo2' = limpar_texto(limpo1)
    /\ fase' = 2
    /\ UNCHANGED <<texto, limpo1, app_vars>>

NextNorm ==
    \/ Limpar
    \/ LimparDeNovo

SpecNorm == InitNorm /\ [][NextNorm]_vars

\* ------------------------------------------------------------------ claims
\* the rows of the loaded file with a value in every required column
LinhasValidas(arq) ==
    {i \in DOMAIN arq.linhas :
        \A c \in colunas_necessarias : arq.linhas[i][c] # <<>>}

\* the file is a supported, readable table with all four columns
Preparavel(arq) ==
    /\ arq.ext \in {"csv", "xlsx", "xls"}
    /\ arq.legivel
    /\ colunas_necessarias \subseteq arq.colunas

\* the dataset rows a result list refers to
LinhasDe(res) == {res[k].index : k \in DOMAIN res}

\* C1: the result list holds at most one entry per dataset row.
C1_SemLinhaRepetida ==
    \A i, j \in DOMAIN resultados :
        i # j => resultados[i].index # resultados[j].index

\* C2: the result list is ordered by score, highest first.
C2_OrdenadoPorScore ==
    \A i, j \in DOMAIN resultados :
        i < j => resultados[i].Similaridade >= resultados[j].Similaridade

\* C2 witness: two results with different scores, the better one from the
\* later dataset row.
C2_Witness ==
    \E i, j \in DOMAIN resultados :
        /\ i < j
        /\ resultados[i].Similaridade > resultados[j].Similaridade
        /\ resultados[i].index > resultados[j].index

\* C3: every result scores at least the threshold, and the results are, in
\* order, exactly the extracted matches that score at least the threshold: a
\* match is dropped only when it scores strictly less.
C3_LimiarInclusivo ==
    extract_chamado =>
        /\ \A k \in DOMAIN resultados : resultados[k].Similaridade >= precisao
        /\ Len(resultados) =
              Cardinality({k \in DOMAIN matches : ~(matches[k].score < precisao)})
        /\ \A k \in DOMAIN matches :
              matches[k].score = precisao =>
                  \E r \in DOMAIN resultados :
                      resultados[r].Similaridade = precisao

\* C3 witness: one match scores exactly the threshold and is kept, another
\* scores less and is dropped.
C3_Witness ==
    /\ extract_chamado
    /\ \E k \in DOMAIN matches : matches[k].score = precisao
    /\ \E k \in DOMAIN matches : matches[k].score < precisao
    /\ \E r \in DOMAIN resultados : resultados[r].Similaridade = precisao
    /\ Len(resultados) < Len(matches)

\* C4: with the file, the query and the limit unchanged, the rows returned at
\* a higher threshold are among the rows returned at a lower one.
C4_MonotoniaDoLimiar ==
    [][(/\ arquivo_carregado' = arquivo_carregado
        /\ busca' = busca
        /\ limite_resultados' = limite_resultados
        /\ extract_chamado
        /\ extract_chamado')
       => /\ precisao' > precisao =>
                LinhasDe(resultados') \subseteq LinhasDe(resultados)
          /\ precisao' < precisao =>
                LinhasDe(resultados) \subseteq LinhasDe(resultados')]_vars

\* C4 witness: a search at the higher threshold that kept some matches and
\* dropped others.
C4_Witness ==
    /\ extract_chamado
    /\ \A p \in Precisoes : p <= precisao
    /\ \E k \in DOMAIN matches : matches[k].score < precisao
    /\ resultados # <<>>

\* C5: the result list is never longer than the configured maximum.
C5_NoMaximoLimite == Len(resultados) <= limite_resultados

\* C5 witness: the dataset has more rows than the maximum and the result list
\* is exactly the maximum long.
C5_Witness ==
    /\ extract_chamado
    /\ Len(info_df.linhas) > limite_resultados
    /\ Len(resultados) = limite_resultados

\* C6: for a file that can be read and has the four columns, processar_arquivo
\* returns exactly the rows with a value in all four columns, in file order
\* and unchanged, and returns no dataset (the "no valid data" error) when no
\* row is left; a returned dataset is never empty.
C6_PrepararSoLinhasCompletas ==
    /\ info_df.ok => Len(info_df.linhas) > 0
    /\ Preparavel(arquivo_carregado) =>
          IF LinhasValidas(arquivo_carregado) = {}
          THEN ~info_df.ok /\ saida = "erro_vazio"
          ELSE /\ info_df.ok
               /\ LinhasDe(info_df.linhas) = LinhasValidas(arquivo_carregado)
               /\ \A i, j \in DOMAIN info_df.linhas :
                     i < j => info_df.linhas[i].index < info_df.linhas[j].index
               /\ \A k \in DOMAIN info_df.linhas :
                     \A c \in colunas_necessarias :
                        info_df.linhas[k][c] =
                           arquivo_carregado.linhas[info_df.linhas[k].index][c]

\* C6 witness: a three-row file whose middle row lacks a value; the first and
\* the last row are returned.
C6_Witness ==
    /\ info_df.ok
    /\ Len(arquivo_carregado.linhas) = 3
    /\ LinhasDe(info_df.linhas) = {1, 3}

\* C7: cleaning an already cleaned text changes nothing.
C7_Idempotente == fase = 2 => limpo2 = limpo1

\* C7 witness: a text with upper case and a whitespace run was cleaned twice.
C7_Witness ==
    /\ fase = 2
    /\ Len(limpo1) > 1
    /\ Len(limpo1) < Len(texto)
    /\ \E i \in DOMAIN texto : texto[i] = "D"

RECURSIVE split(_, _)
\* the whitespace-separated tokens of s (tok is the token being read)
split(s, tok) ==
    IF s = <<>> THEN (IF tok = <<>> THEN {} ELSE {tok})
    ELSE IF Head(s) \in Whitespace
         THEN (IF tok = <<>> THEN {} ELSE {tok}) \cup split(Tail(s), <<>>)
         ELSE split(Tail(s), Append(tok, Head(s)))

Stopwords == {<<"d", "e">>, <<"e">>}

\* every token of the text is a stopword or holds a non-alphabetic character
SoStopwordsOuPontuacao(s) ==
    \A tok \in split(lower(s), <<>>) :
        \/ tok \in Stopwords
        \/ \E i \in DOMAIN tok : tok[i] \notin Letras

SemEspacos(s) == SelectSeq(s, LAMBDA c : c \notin Whitespace)

C9_RankerSoComDataset ==
    /\ extract_chamado =>
          /\ arquivo_carregado.ext # "none"
          /\ Preparavel(arquivo_carregado)
          /\ LinhasValidas(arquivo_carregado) # {}
          /\ info_df.ok
          /\ Len(info_df.linhas) > 0
    /\ ~info_df.ok => (~extract_chamado /\ matches = <<>> /\ resultados = <<>>)

\* C9 witness: a search ran on a dataset prepared from a file that also had
\* an incomplete row.
C9_Witness ==
    /\ extract_chamado
    /\ Len(info_df.linhas) < Len(arquivo_carregado.linhas)

====
